---- MODULE Spec2Model ----
(***************************************************************************)
(* Model of the publish/merge engine of comfy-dev-cli                      *)
(* (src/cli/commands/publish.py, with find_branches of commands/show.py).  *)
(* One publish call is a sequence of steps, one per statement or           *)
(* subprocess call of publish_results and _publish_with_worktree.  Git is  *)
(* modelled by what the commands used do to refs, indexes and working      *)
(* trees.                                                                  *)
(***************************************************************************)
EXTENDS Integers, FiniteSets, Sequences, TLC

\* ------------------------------------------------------------------ bounds
MaxCalls == 2
MaxVer == 1
MaxDirs == 2

\* ------------------------------------------------------------ the file model
\* Source branches a test run was made on (directory names in a ResultSet).
Branches == {"dev", "main"}

\* show.py PLATFORM_IDS, cut to two of its eight ids.
PLATFORM_IDS == {"linux-gpu", "windows-cpu"}

Pairs == Branches \X PLATFORM_IDS

\* A platform directory: results.json (0 = absent, v = version v of the
\* document), one auxiliary asset file (0 = absent), and index.html
\* (0 = absent, -1 = the page the test runner shipped, v = the page the
\* Report Renderer makes from results.json version v).
NoDir == [res |-> 0, aux |-> 0, idx |-> 0]

NoIdx == [present |-> FALSE, tabs |-> {}]

\* A tree of files: src is the source repository's own files (0 = none,
\* 1 = as committed at HEAD, 2 = modified), dirs the platform directories,
\* bidx the per-branch index.html, ridx the root index.html.
EmptyTree == [src |-> 0,
              dirs |-> [pr \in Pairs |-> NoDir],
              bidx |-> [b \in Branches |-> NoIdx],
              ridx |-> NoIdx,
              nojekyll |-> FALSE]

SrcTree == [EmptyTree EXCEPT !.src = 1]

NoCommit == [id |-> 0, parent |-> 0, tree |-> EmptyTree]

\* The commit the primary checkout's HEAD points to.
SrcCommit == [id |-> 1, parent |-> 0, tree |-> SrcTree]

NoWt == [exists |-> FALSE, branch |-> "", head |-> NoCommit,
         files |-> EmptyTree, index |-> EmptyTree]

\* ------------------------------------------------------------- ResultSets
\* A platform directory of a local ResultSet, as the test runner leaves it.
\* Version 0 is a directory without results.json (logs only); a run with
\* results ships its page, and the odd versions have no auxiliary file.
SrcDir(v) == [exists |-> TRUE, res |-> v,
              aux |-> IF v % 2 = 1 THEN 0 ELSE 1,
              idx |-> IF v > 0 THEN -1 ELSE 0]

NoSrcDir == [exists |-> FALSE, res |-> 0, aux |-> 0, idx |-> 0]

SrcDirs == {NoSrcDir} \cup {SrcDir(v) : v \in 0..MaxVer}

NoLog == [found |-> FALSE, dirs |-> [pr \in Pairs |-> NoSrcDir]]

\* The ResultSets find_latest_log may return: no log folder, or a folder
\* with at most MaxDirs platform directories; a folder with several
\* platform directories has a results.json in each.
ResultSets == {NoLog} \cup
  {[found |-> TRUE, dirs |-> d] : d \in
     {f \in [Pairs -> SrcDirs] :
        LET have == {pr \in Pairs : f[pr].exists}
        IN /\ Cardinality(have) <= MaxDirs
           /\ Cardinality(have) > 1 => \A pr \in have : f[pr].res > 0}}

\* The (branch, platform) pairs a ResultSet holds results for.
Holds(r) == {pr \in Pairs : r.dirs[pr].exists /\ r.dirs[pr].res > 0}

\* ------------------------------------------------------- files and renderer
\* A copy over the old directory, without removing it first.
RmTreeSkipped(d) == d

\* shutil.rmtree(dst_platform): the directory and all its files are gone.
RmTree(d) == NoDir

\* shutil.copytree(src_platform, dst_platform): every file of the source
\* directory is written under the destination.
CopyTree(dst, s) == [res |-> IF s.res # 0 THEN s.res ELSE dst.res,
                     aux |-> IF s.aux # 0 THEN s.aux ELSE dst.aux,
                     idx |-> IF s.idx # 0 THEN s.idx ELSE dst.idx]

\* dst_platform.exists()
DirExists(d) == d # NoDir

\* CopyPlatforms with the whole branch directory removed before the copy.
CopyPlatformsWipeBranch(dirs, r, b) ==
  [pr \in Pairs |->
     IF pr[1] = b
     THEN (IF r.dirs[pr].exists /\ r.dirs[pr].res > 0
           THEN CopyTree(NoDir, r.dirs[pr]) ELSE NoDir)
     ELSE dirs[pr]]

\* The inner loop of the merge for one branch folder b of ResultSet r:
\* only a platform whose source directory has a results.json is replaced.
CopyPlatforms(dirs, r, b) ==
  [pr \in Pairs |->
     IF pr[1] = b /\ r.dirs[pr].exists /\ r.dirs[pr].res > 0
     THEN CopyTree(IF DirExists(dirs[pr]) THEN RmTree(dirs[pr]) ELSE dirs[pr],
                   r.dirs[pr])
     ELSE dirs[pr]]

\* generate_html_report(platform_dir, ...): writes index.html from the
\* directory's results.json.
RenderPlatform(d) == [d EXCEPT !.idx = d.res]

\* The per-platform regeneration loop of one branch: every platform
\* directory of the branch that has a results.json is rendered again; a
\* renderer that raises is caught and the directory is left as it is.
RenderBranch(dirs, b, mode) ==
  [pr \in Pairs |->
     IF pr[1] = b /\ dirs[pr].res > 0 /\ mode = "ok"
     THEN RenderPlatform(dirs[pr])
     ELSE dirs[pr]]

\* generate_root_index(gh_branch_dir, ...): the platform tabs of a branch.
BranchIndex(dirs, b) ==
  [present |-> TRUE, tabs |-> {p \in PLATFORM_IDS : dirs[<<b, p>>].res > 0}]

\* generate_branch_root_index(worktree_path, ...): the branch switcher lists
\* the branch directories of the store.
RootIndex(t) ==
  [present |-> TRUE,
   tabs |-> {b \in Branches :
               t.bidx[b].present \/ \E p \in PLATFORM_IDS : DirExists(t.dirs[<<b, p>>])}]

\* find_branches(log_folder): the subdirectories that contain at least one
\* platform-id subdirectory.
find_branches(r) == {b \in Branches : \E p \in PLATFORM_IDS : r.dirs[<<b, p>>].exists}

\* ------------------------------------------------------------------- git
\* git status --porcelain prints something: the working tree differs from
\* the index or the index from HEAD.
GitStatusDirty(w) == w.files # w.index \/ w.index # w.head.tree

\* A push that is forced: the remote takes any commit.
FastForwardForce(rem, c) == TRUE

\* A remote that also takes a commit without a parent.
FastForwardUnrelated(rem, c) ==
  rem = NoCommit \/ c.parent = rem.id \/ c.id = rem.id \/ c.parent = 0

\* git push origin gh-pages (no force) is accepted when the remote has no
\* such branch or the pushed commit descends from the remote head.  Every
\* local commit is a fresh child of the head that was fetched.
FastForward(rem, c) == rem = NoCommit \/ c.parent = rem.id \/ c.id = rem.id

\* The guard of publish_results step 2, with working tree w and flag f.
DirtyGuardNoForce(w, f) == GitStatusDirty(w)

DirtyGuard(w, f) == GitStatusDirty(w) /\ ~f

\* The working directory each command of _publish_with_worktree runs in.
OrphanCwdRepo == "primary"

OrphanCwd == "worktree"
RmCachedCwd == "worktree"
MergeRoot == "worktree"
AddCwd == "worktree"
StatusCwdRepo == "primary"

StatusCwd == "worktree"
CommitCwd == "worktree"

\* ------------------------------------------------------------------ state
VARIABLES
  remote,      \* head commit of origin/gh-pages, NoCommit when absent
  localPages,  \* head commit of the local gh-pages branch, NoCommit when absent
  fetchHead,   \* FETCH_HEAD of the last successful fetch of this call
  wt,          \* the two working trees: "primary" and "worktree"
  tmp,         \* the temporary directory of this call exists
  stale,       \* an abandoned worktree of a killed call has gh-pages as HEAD
  renderer,    \* "absent" (HAS_REPORT_UTILS false), "ok" or "raises"
  pc,          \* position of the publish call
  force, push, \* arguments of the call
  rs,          \* the ResultSet find_latest_log returned
  todo,        \* branch folders the merge loop has not processed yet
  remoteHas,   \* remote_has_gh_pages
  outcome, rc, \* how the call ended and its exit code
  did,         \* the git commands and workspace steps this call has run
  pre,         \* remote head when the call started
  made,        \* the commit this call made
  prev,        \* ResultSet and result of the previous call, kept when it reached the push
  calls, nextId,
  other,       \* a second publisher on another machine (CI) and its one publish
  st,          \* the status command (show_test_status)
  dec          \* one results.json document and what the Status Reader decodes

vars == <<remote, localPages, fetchHead, wt, tmp, stale, renderer, pc, force,
          push, rs, todo, remoteHas, outcome, rc, did, pre, made, prev,
          calls, nextId, other, st, dec>>

\* The state that no step of publish touches.
xvars == <<other, st, dec>>

HAS_REPORT_UTILS == renderer # "absent"

NoPrev == [rs |-> NoLog, push |-> FALSE, outcome |-> "", pre |-> NoCommit,
           remote |-> NoCommit, made |-> NoCommit]

\* A store a CI job has published before: one platform of one branch, with
\* a results.json no local run produces.
CiVer == MaxVer + 1

CiTree == [EmptyTree EXCEPT !.dirs[<<"dev", "windows-cpu">>] =
                              [res |-> CiVer, aux |-> 1, idx |-> CiVer],
                            !.bidx["dev"] = [present |-> TRUE, tabs |-> {"windows-cpu"}],
                            !.ridx = [present |-> TRUE, tabs |-> {"dev"}],
                            !.nojekyll = TRUE]

CiCommit == [id |-> 2, parent |-> 0, tree |-> CiTree]

\* No second publisher takes part.
NoOther == [pc |-> "off", base |-> NoCommit, commit |-> NoCommit, ok |-> FALSE]

\* The status command is not running.
StOff == [pc |-> "off"]

\* No document is being decoded.
DecOff == [pc |-> "off"]

Init ==
  /\ remote \in {NoCommit, CiCommit}
  /\ localPages = NoCommit
  /\ fetchHead = NoCommit
  /\ \E dirty \in BOOLEAN :
       wt = [w \in {"primary", "worktree"} |->
               IF w = "primary"
               THEN [exists |-> TRUE, branch |-> "main", head |-> SrcCommit,
                     files |-> [SrcTree EXCEPT !.src = IF dirty THEN 2 ELSE 1],
                     index |-> SrcTree]
               ELSE NoWt]
  /\ tmp = FALSE
  /\ stale = FALSE
  /\ renderer \in {"absent", "ok", "raises"}
  /\ pc = "idle"
  /\ force = FALSE /\ push = FALSE
  /\ rs = NoLog
  /\ todo = {}
  /\ remoteHas = FALSE
  /\ outcome = "" /\ rc = -1
  /\ did = {}
  /\ pre = NoCommit
  /\ made = NoCommit
  /\ prev = NoPrev
  /\ calls = 0
  /\ nextId = 3
  /\ other = NoOther
  /\ st = StOff
  /\ dec = DecOff

\* A guard that returns 0.
ReturnZero(o, code) == pc' = "done" /\ outcome' = o /\ rc' = 0

\* return <code> from publish_results, before any workspace exists.
Return(o, code) == pc' = "done" /\ outcome' = o /\ rc' = code

\* Leave without the finally clause and the with block.
LeaveNoFinally(o, code) == pc' = "done" /\ outcome' = o /\ rc' = code

\* return or raise inside the try block: the finally clause runs next.
Leave(o, code) == pc' = "cleanup" /\ outcome' = o /\ rc' = code

\* ---------------------------------------------------------------- actions
\* publish_results step 1: a new call starts and find_repo runs.
FindRepo(found, f, p) ==
  /\ pc \in {"idle", "done", "killed"}
  /\ calls < MaxCalls
  /\ calls' = calls + 1
  /\ force' = f /\ push' = p
  /\ prev' = IF outcome \in {"Published", "PushRejected", "Committed"}
             THEN [rs |-> rs, push |-> push, outcome |-> outcome, pre |-> pre,
                   remote |-> remote, made |-> made]
             ELSE NoPrev
  /\ pre' = remote
  /\ made' = NoCommit
  /\ did' = {}
  /\ rs' = NoLog
  /\ todo' = {}
  /\ remoteHas' = FALSE
  /\ fetchHead' = NoCommit
  /\ tmp' = FALSE
  /\ wt' = [wt EXCEPT !["worktree"] = NoWt]
  /\ IF found
     THEN pc' = "dirty" /\ outcome' = "" /\ rc' = -1
     ELSE Return("RepoNotFound", 1)
  /\ UNCHANGED <<remote, localPages, stale, renderer, nextId>>
  /\ UNCHANGED xvars

\* publish_results step 2: git status --porcelain in the repository.
CheckDirty ==
  /\ pc = "dirty"
  /\ IF DirtyGuard(wt["primary"], force)
     THEN Return("DirtyWorkingTree", 1)
     ELSE pc' = "findlog" /\ UNCHANGED <<outcome, rc>>
  /\ UNCHANGED <<remote, localPages, fetchHead, wt, tmp, stale, renderer, force,
                 push, rs, todo, remoteHas, did, pre, made, prev, calls, nextId>>
  /\ UNCHANGED xvars

\* publish_results step 3: find_latest_log.
FindLog(r) ==
  /\ pc = "findlog"
  /\ rs' = r
  /\ IF ~r.found
     THEN Return("NoResults", 1)
     ELSE pc' = "branches" /\ UNCHANGED <<outcome, rc>>
  /\ UNCHANGED <<remote, localPages, fetchHead, wt, tmp, stale, renderer, force,
                 push, todo, remoteHas, did, pre, made, prev, calls, nextId>>
  /\ UNCHANGED xvars

\* publish_results step 4: find_branches.
FindBranches ==
  /\ pc = "branches"
  /\ todo' = find_branches(rs)
  /\ IF find_branches(rs) = {}
     THEN Return("NoPlatformData", 1)
     ELSE pc' = "delbranch" /\ UNCHANGED <<outcome, rc>>
  /\ UNCHANGED <<remote, localPages, fetchHead, wt, tmp, stale, renderer, force,
                 push, rs, remoteHas, did, pre, made, prev, calls, nextId>>
  /\ UNCHANGED xvars

\* A publish that keeps the local gh-pages branch it finds.
DeleteLocalBranchKept ==
  /\ pc = "delbranch"
  /\ did' = did \cup {"branch-D"}
  /\ pc' = "fetch"
  /\ UNCHANGED <<remote, localPages, fetchHead, wt, tmp, stale, renderer, force, push,
                 rs, todo, remoteHas, outcome, rc, pre, made, prev, calls, nextId>>
  /\ UNCHANGED xvars

\* git branch -D gh-pages: refused while a worktree has the branch checked out.
DeleteLocalBranch ==
  /\ pc = "delbranch"
  /\ localPages' = IF stale THEN localPages ELSE NoCommit
  /\ did' = did \cup {"branch-D"}
  /\ pc' = "fetch"
  /\ UNCHANGED <<remote, fetchHead, wt, tmp, stale, renderer, force, push, rs,
                 todo, remoteHas, outcome, rc, pre, made, prev, calls, nextId>>
  /\ UNCHANGED xvars

\* git fetch origin gh-pages: fails when the remote has no such branch, and
\* may fail for any other reason (network, credentials).
Fetch(ok) ==
  /\ pc = "fetch"
  /\ ok => remote # NoCommit
  /\ fetchHead' = IF ok THEN remote ELSE NoCommit
  /\ remoteHas' = ok
  /\ did' = did \cup {"fetch"}
  /\ pc' = "wtadd"
  /\ UNCHANGED <<remote, localPages, wt, tmp, stale, renderer, force, push, rs,
                 todo, outcome, rc, pre, made, prev, calls, nextId>>
  /\ UNCHANGED xvars

\* tempfile.TemporaryDirectory() and git worktree add -b gh-pages <path> FETCH_HEAD.
\* Git refuses when the branch exists; when an abandoned worktree has the
\* still unborn branch as HEAD it creates the branch and then refuses the
\* checkout.
WorktreeAddBranch ==
  /\ pc = "wtadd"
  /\ remoteHas
  /\ tmp' = TRUE
  /\ did' = did \cup {"workspace"}
  /\ IF localPages # NoCommit \/ stale
     THEN /\ Leave("WorktreeCreationFailed", 1)
          /\ localPages' = IF localPages # NoCommit THEN localPages ELSE fetchHead
          /\ UNCHANGED wt
     ELSE /\ wt' = [wt EXCEPT !["worktree"] =
                      [exists |-> TRUE, branch |-> "gh-pages", head |-> fetchHead,
                       files |-> fetchHead.tree, index |-> fetchHead.tree]]
          /\ localPages' = fetchHead
          /\ pc' = "merge"
          /\ UNCHANGED <<outcome, rc>>
  /\ UNCHANGED <<remote, fetchHead, stale, renderer, force, push, rs, todo,
                 remoteHas, pre, made, prev, calls, nextId>>
  /\ UNCHANGED xvars

\* tempfile.TemporaryDirectory() and git worktree add --detach <path>.
WorktreeAddDetach ==
  /\ pc = "wtadd"
  /\ ~remoteHas
  /\ tmp' = TRUE
  /\ did' = did \cup {"workspace"}
  /\ wt' = [wt EXCEPT !["worktree"] =
              [exists |-> TRUE, branch |-> "detached", head |-> wt["primary"].head,
               files |-> wt["primary"].head.tree, index |-> wt["primary"].head.tree]]
  /\ pc' = "orphan"
  /\ UNCHANGED <<remote, localPages, fetchHead, stale, renderer, force, push, rs,
                 todo, remoteHas, outcome, rc, pre, made, prev, calls, nextId>>
  /\ UNCHANGED xvars

\* git checkout --orphan gh-pages: HEAD becomes the unborn branch, the index
\* and the files stay; refused when the branch exists.
CheckoutOrphan ==
  /\ pc = "orphan"
  /\ IF localPages # NoCommit
     THEN Leave("WorktreeCreationFailed", 1) /\ UNCHANGED wt
     ELSE /\ wt' = [wt EXCEPT ![OrphanCwd].branch = "gh-pages",
                              ![OrphanCwd].head = NoCommit]
          /\ pc' = "rmcached"
          /\ UNCHANGED <<outcome, rc>>
  /\ UNCHANGED <<remote, localPages, fetchHead, tmp, stale, renderer, force, push,
                 rs, todo, remoteHas, did, pre, made, prev, calls, nextId>>
  /\ UNCHANGED xvars

\* git rm -rf --cached . : empties the index, the files stay on disk.
RmCached ==
  /\ pc = "rmcached"
  /\ wt' = [wt EXCEPT ![RmCachedCwd].index = EmptyTree]
  /\ pc' = "merge"
  /\ UNCHANGED <<remote, localPages, fetchHead, tmp, stale, renderer, force, push,
                 rs, todo, remoteHas, outcome, rc, did, pre, made, prev, calls,
                 nextId>>
  /\ UNCHANGED xvars

\* The files of the workspace after one iteration of the outer merge loop:
\* copy the platforms of branch folder b, then regenerate the reports of the
\* branch and (when that did not raise) its index.
MergedFiles(t, r, b, mode) ==
  LET copied == CopyPlatforms(t.dirs, r, b)
      shown == IF mode = "absent" THEN copied ELSE RenderBranch(copied, b, mode)
  IN [t EXCEPT !.dirs = shown,
               !.bidx[b] = IF mode = "ok" THEN BranchIndex(shown, b) ELSE @]

\* Where the call goes after the iteration for b with t left to process:
\* the statements after the loop run once every branch folder is done.
AfterMergeInLoop(t, b) == "rootidx"

AfterMerge(t, b) == IF t = {b} THEN "rootidx" ELSE "merge"

\* One iteration of "for branch_folder in branches"; generate_root_index is
\* not guarded, so a renderer that raises ends the call.
MergeBranch(b) ==
  /\ pc = "merge"
  /\ b \in todo
  /\ wt' = [wt EXCEPT ![MergeRoot].files = MergedFiles(@, rs, b, renderer)]
  /\ IF renderer = "raises"
     THEN /\ Leave("Exception", 1)
          /\ UNCHANGED todo
     ELSE /\ pc' = AfterMerge(todo, b)
          /\ todo' = todo \ {b}
          /\ UNCHANGED <<outcome, rc>>
  /\ UNCHANGED <<remote, localPages, fetchHead, tmp, stale, renderer, force, push,
                 rs, remoteHas, did, pre, made, prev, calls, nextId>>
  /\ UNCHANGED xvars

\* generate_branch_root_index (when the renderer is there) and .nojekyll.
RootIndexAndMarker ==
  /\ pc = "rootidx"
  /\ wt' = [wt EXCEPT ![MergeRoot].files =
              [@ EXCEPT !.ridx = IF HAS_REPORT_UTILS THEN RootIndex(wt[MergeRoot].files) ELSE @,
                        !.nojekyll = TRUE]]
  /\ pc' = "stage"
  /\ UNCHANGED <<remote, localPages, fetchHead, tmp, stale, renderer, force, push,
                 rs, todo, remoteHas, outcome, rc, did, pre, made, prev, calls,
                 nextId>>
  /\ UNCHANGED xvars

\* git add -A (check=True: a failure raises).
Stage(ok) ==
  /\ pc = "stage"
  /\ IF ok
     THEN /\ wt' = [wt EXCEPT ![AddCwd].index = wt[AddCwd].files]
          /\ pc' = "status"
          /\ UNCHANGED <<outcome, rc>>
     ELSE Leave("Exception", 1) /\ UNCHANGED wt
  /\ UNCHANGED <<remote, localPages, fetchHead, tmp, stale, renderer, force, push,
                 rs, todo, remoteHas, did, pre, made, prev, calls, nextId>>
  /\ UNCHANGED xvars

\* git status --porcelain in the workspace: nothing to commit ends the call.
StatusCheck ==
  /\ pc = "status"
  /\ IF ~GitStatusDirty(wt[StatusCwd])
     THEN Leave("NoChanges", 0)
     ELSE pc' = "commit" /\ UNCHANGED <<outcome, rc>>
  /\ UNCHANGED <<remote, localPages, fetchHead, wt, tmp, stale, renderer, force,
                 push, rs, todo, remoteHas, did, pre, made, prev, calls, nextId>>
  /\ UNCHANGED xvars

\* A commit made as a child of whatever the remote holds by now.
NewCommitOnRemote(w) == [id |-> nextId, parent |-> remote.id, tree |-> w.index]

\* The commit git commit makes in working tree w.
NewCommit(w) == [id |-> nextId, parent |-> w.head.id, tree |-> w.index]

\* git commit -m "Update test results" (check=True: a failure raises).
Commit(ok) ==
  /\ pc = "commit"
  /\ IF ok
     THEN /\ wt' = [wt EXCEPT ![CommitCwd].head = NewCommit(wt[CommitCwd])]
          /\ localPages' = IF wt[CommitCwd].branch = "gh-pages"
                           THEN NewCommit(wt[CommitCwd]) ELSE localPages
          /\ made' = NewCommit(wt[CommitCwd])
          /\ nextId' = nextId + 1
          /\ did' = did \cup {"commit"}
          /\ pc' = "push"
          /\ UNCHANGED <<outcome, rc>>
     ELSE /\ Leave("Exception", 1)
          /\ UNCHANGED <<wt, localPages, made, nextId, did>>
  /\ UNCHANGED <<remote, fetchHead, tmp, stale, renderer, force, push, rs, todo,
                 remoteHas, pre, prev, calls>>
  /\ UNCHANGED xvars

\* A failed push that is tried again.
PushFailedRetry(o, code) == pc' = "push" /\ outcome' = o /\ rc' = code

\* "if push_result.returncode != 0": print the error and return 1.
PushFailed(o, code) == Leave(o, code)

\* "if push:" git push -u origin gh-pages; the remote rejects a push that is
\* not a fast-forward, and the push may fail for any other reason. did
\* tells a first attempt ("push") from a further one ("push-again").
Push(ok) ==
  /\ pc = "push"
  /\ push
  /\ did' = did \cup {IF "push" \in did THEN "push-again" ELSE "push"}
  /\ IF ok /\ localPages # NoCommit /\ FastForward(remote, localPages)
     THEN remote' = localPages /\ Leave("Published", 0)
     ELSE UNCHANGED remote /\ PushFailed("PushRejected", 1)
  /\ UNCHANGED <<localPages, fetchHead, wt, tmp, stale, renderer, force, push, rs,
                 todo, remoteHas, pre, made, prev, calls, nextId>>
  /\ UNCHANGED xvars

\* "else:" the commit stays on the local branch.
NoPush ==
  /\ pc = "push"
  /\ ~push
  /\ Leave("Committed", 0)
  /\ UNCHANGED <<remote, localPages, fetchHead, wt, tmp, stale, renderer, force,
                 push, rs, todo, remoteHas, did, pre, made, prev, calls, nextId>>
  /\ UNCHANGED xvars

\* finally: git worktree remove --force, then the TemporaryDirectory exits.
Cleanup ==
  /\ pc = "cleanup"
  /\ wt' = [wt EXCEPT !["worktree"] = NoWt]
  /\ tmp' = FALSE
  /\ pc' = "done"
  /\ UNCHANGED <<remote, localPages, fetchHead, stale, renderer, force, push, rs,
                 todo, remoteHas, outcome, rc, did, pre, made, prev, calls, nextId>>
  /\ UNCHANGED xvars

Running == pc \notin {"idle", "done", "killed"}

\* The process is killed between two steps: nothing is cleaned up, and a
\* workspace on gh-pages stays registered.
Kill ==
  /\ Running
  /\ pc' = "killed"
  /\ outcome' = "Killed"
  /\ rc' = -1
  /\ stale' = (stale \/ (wt["worktree"].exists /\ wt["worktree"].branch = "gh-pages"))
  /\ UNCHANGED <<remote, localPages, fetchHead, wt, tmp, renderer, force, push, rs,
                 todo, remoteHas, did, pre, made, prev, calls, nextId>>
  /\ UNCHANGED xvars

Next ==
  \/ \E found \in BOOLEAN, f \in BOOLEAN, p \in BOOLEAN : FindRepo(found, f, p)
  \/ CheckDirty
  \/ \E r \in ResultSets : FindLog(r)
  \/ FindBranches
  \/ DeleteLocalBranch
  \/ \E ok \in BOOLEAN : Fetch(ok)
  \/ WorktreeAddBranch
  \/ WorktreeAddDetach
  \/ CheckoutOrphan
  \/ RmCached
  \/ \E b \in Branches : MergeBranch(b)
  \/ RootIndexAndMarker
  \/ \E ok \in BOOLEAN : Stage(ok)
  \/ StatusCheck
  \/ \E ok \in BOOLEAN : Commit(ok)
  \/ \E ok \in BOOLEAN : Push(ok)
  \/ NoPush
  \/ Cleanup
  \/ Kill

Spec == Init /\ [][Next]_vars

\* ------------------------------------------------------------- properties
\* The primary data of a platform directory: results.json and every other
\* file that is not a generated index page.
PrimaryData(d) == [res |-> d.res, aux |-> d.aux]

\* The (branch, platform) pairs a commit holds.
Published(c) == {pr \in Pairs : DirExists(c.tree.dirs[pr])}

\* C1: a publish leaves, in the commit it produces, the primary data of
\* every pair that was published before the call and is not in the
\* ResultSet as it was.
C1_NonDestructiveMerge ==
  made # NoCommit =>
    \A pr \in Published(pre) \ Holds(rs) :
      PrimaryData(made.tree.dirs[pr]) = PrimaryData(pre.tree.dirs[pr])

\* C2: when the remote has no pages branch, the first commit of the new
\* pages branch holds exactly the published subtrees (with the derived
\* index pages and .nojekyll) and no file of the source repository.
C2_OrphanBootstrap ==
  (made # NoCommit /\ pre = NoCommit) =>
    /\ made.parent = 0
    /\ made.tree.src = 0
    /\ Published(made) = Holds(rs)
    /\ \A pr \in Holds(rs) : PrimaryData(made.tree.dirs[pr]) = PrimaryData(rs.dirs[pr])
    /\ made.tree.nojekyll

\* C3: from a remote without a pages branch, publishing R1 and then R2 for
\* another platform, both pushed, leaves the remote with R1's platforms
\* holding R1's content and R2's platforms holding R2's content.
C3_SequenceKeepsBoth ==
  (pc = "done" /\ outcome = "Published" /\ prev.outcome = "Published"
     /\ prev.pre = NoCommit) =>
    /\ \A pr \in Holds(prev.rs) \ Holds(rs) :
         PrimaryData(remote.tree.dirs[pr]) = PrimaryData(prev.rs.dirs[pr])
    /\ \A pr \in Holds(rs) :
         PrimaryData(remote.tree.dirs[pr]) = PrimaryData(rs.dirs[pr])

C3_Witness ==
  /\ pc = "done" /\ outcome = "Published" /\ prev.outcome = "Published"
  /\ prev.pre = NoCommit
  /\ Holds(prev.rs) = {<<"dev", "linux-gpu">>}
  /\ Holds(rs) = {<<"dev", "windows-cpu">>}
  /\ Published(remote) = {<<"dev", "linux-gpu">>, <<"dev", "windows-cpu">>}

\* C4: a publish of the ResultSet the previous call published, push
\* requested, never ends Published and leaves the remote as the previous
\* call left it; when it succeeds it is NoChanges, without a commit or a push.
C4_Idempotence ==
  (pc \in {"cleanup", "done"} /\ prev.outcome = "Published" /\ rs = prev.rs /\ push) =>
    /\ remote = prev.remote
    /\ outcome # "Published"
    /\ rc = 0 => (outcome = "NoChanges" /\ made = NoCommit
                    /\ "commit" \notin did /\ "push" \notin did)

C4_Witness ==
  /\ pc = "done" /\ prev.outcome = "Published" /\ rs = prev.rs /\ push
  /\ outcome = "NoChanges" /\ remote = prev.remote /\ remote # NoCommit

\* C5: at every point of a call, killed or not, the remote pages branch is
\* at the commit it had when the call started or at the complete commit of
\* the call, which holds every platform of the ResultSet.
C5_AtomicVisibility ==
  calls > 0 =>
    \/ remote = pre
    \/ /\ made # NoCommit /\ remote = made /\ "push" \in did
       /\ \A pr \in Holds(rs) :
            PrimaryData(remote.tree.dirs[pr]) = PrimaryData(rs.dirs[pr])

C5_Witness ==
  /\ remote = made /\ made # NoCommit /\ pre # NoCommit
  /\ Cardinality({pr[1] : pr \in Holds(rs)}) = 2

\* C6: a dirty repository without force ends in DirtyWorkingTree with no
\* fetch, no branch deleted or created, no workspace and the remote
\* untouched; with force the same repository passes the guard.
C6_DirtyGuard ==
  /\ outcome = "DirtyWorkingTree" =>
       /\ GitStatusDirty(wt["primary"]) /\ ~force
       /\ pc = "done" /\ rc = 1
       /\ did = {} /\ ~tmp /\ ~wt["worktree"].exists
       /\ remote = pre /\ made = NoCommit
  /\ (GitStatusDirty(wt["primary"]) /\ ~force
        /\ pc \notin {"idle", "dirty", "killed"} /\ outcome # "RepoNotFound")
       => outcome = "DirtyWorkingTree"
  /\ (GitStatusDirty(wt["primary"]) /\ force) => outcome # "DirtyWorkingTree"

C6_Witness ==
  /\ outcome = "DirtyWorkingTree" /\ pc = "done" /\ did = {}
  /\ GitStatusDirty(wt["primary"])

\* C7: a ResultSet without any platform directory that has a results.json
\* is rejected with NoPlatformData and no commit is made.
C7_NoPlatformData ==
  (rs.found /\ Holds(rs) = {} /\ pc \notin {"branches", "killed"}) =>
    (outcome = "NoPlatformData" /\ made = NoCommit)

\* C8: a call whose guard fails (dirty without force, no ResultSet, no
\* platform data) ends in an error and has run no fetch, no branch deletion,
\* no workspace creation, no commit and no push.
C8_GuardsBeforeEffects ==
  LET dirty == GitStatusDirty(wt["primary"]) /\ ~force /\ pc \notin {"idle", "dirty"}
      nolog == ~rs.found /\ pc \notin {"idle", "dirty", "findlog"}
      nodata == rs.found /\ Holds(rs) = {} /\ pc # "branches"
  IN (outcome # "RepoNotFound" /\ (dirty \/ nolog \/ nodata)) =>
       (did = {} /\ ~tmp /\ remote = pre /\ (pc = "done" => rc = 1))

\* C9: when a call that created a workspace has ended, whatever its
\* outcome, the workspace directory is gone.
C9_Cleanup ==
  (pc = "done" /\ "workspace" \in did) => (~tmp /\ ~wt["worktree"].exists)

C9_Witness ==
  /\ pc = "done" /\ "workspace" \in did /\ outcome = "Exception"
  /\ ~tmp /\ ~wt["worktree"].exists

\* C10: no step of publish changes the primary checkout: its files, its
\* index, its branch and the commit HEAD points to stay as they were.
C10_PrimaryUntouched == [][wt'["primary"] = wt["primary"]]_vars

C10_Witness ==
  /\ pc = "done" /\ "commit" \in did /\ made.parent = 0
  /\ wt["primary"].branch = "main" /\ wt["primary"].head = SrcCommit

\* C11: a publish whose push fails has made exactly one push attempt,
\* returns 1, leaves its new commit on the local gh-pages branch and
\* leaves the remote as it was when the call began.
C11_PushRejection ==
  outcome = "PushRejected" =>
    /\ rc = 1
    /\ "push" \in did /\ "push-again" \notin did
    /\ made # NoCommit /\ localPages = made
    /\ remote = pre

\* A push was rejected because the orphan commit is no fast-forward.
C11_Witness ==
  /\ pc = "done" /\ outcome = "PushRejected"
  /\ pre # NoCommit /\ ~remoteHas /\ made.parent = 0

\* C14: no step makes a (branch, platform) subtree of the remote disappear,
\* whether or not the fetch succeeded.
C14_RemoteNeverShrinks == [][Published(remote) \subseteq Published(remote')]_vars

\* A publish whose fetch failed although the remote held subtrees tried to push.
C14_Witness ==
  /\ "push" \in did /\ ~remoteHas
  /\ Published(pre) # {} /\ Published(remote) # {}

\* The outcomes of a call that did its work.
SuccessOutcomes == {"Published", "NoChanges", "Committed"}

\* The outcomes of a call that ended in an error.
ErrorOutcomes == {"RepoNotFound", "DirtyWorkingTree", "NoResults", "NoPlatformData",
                  "WorktreeCreationFailed", "Exception", "PushRejected"}

C15_RendererNonFatal ==
  renderer = "raises" => ~(outcome = "Exception" /\ todo # {} /\ made = NoCommit)

\* ------------------------------------------------- two publishers, one remote
\* A second publisher runs the same publish on another machine, for the
\* platform of that machine: it fetches, commits a child of what it fetched
\* (an orphan commit with its source files when it fetched nothing), and
\* pushes without force.
OtherPair == <<"main", "windows-cpu">>

OtherDirs(base) ==
  [base.tree.dirs EXCEPT ![OtherPair] = [res |-> CiVer, aux |-> 1, idx |-> CiVer]]

OtherTree(base) ==
  LET withDirs == [base.tree EXCEPT
                     !.src = IF base = NoCommit THEN 1 ELSE @,
                     !.dirs = OtherDirs(base),
                     !.bidx[OtherPair[1]] = BranchIndex(OtherDirs(base), OtherPair[1]),
                     !.nojekyll = TRUE]
  IN [withDirs EXCEPT !.ridx = RootIndex(withDirs)]

\* One publisher and a second one that has not fetched yet; the working tree
\* is clean and the renderer works.
InitRace ==
  /\ remote \in {NoCommit, CiCommit}
  /\ localPages = NoCommit
  /\ fetchHead = NoCommit
  /\ wt = [w \in {"primary", "worktree"} |->
             IF w = "primary"
             THEN [exists |-> TRUE, branch |-> "main", head |-> SrcCommit,
                   files |-> SrcTree, index |-> SrcTree]
             ELSE NoWt]
  /\ tmp = FALSE
  /\ stale = FALSE
  /\ renderer = "ok"
  /\ pc = "idle"
  /\ force = FALSE /\ push = FALSE
  /\ rs = NoLog
  /\ todo = {}
  /\ remoteHas = FALSE
  /\ outcome = "" /\ rc = -1
  /\ did = {}
  /\ pre = NoCommit
  /\ made = NoCommit
  /\ prev = NoPrev
  /\ calls = 0
  /\ nextId = 3
  /\ other = [NoOther EXCEPT !.pc = "idle"]
  /\ st = StOff
  /\ dec = DecOff

\* The second publisher's git fetch origin gh-pages.
OtherFetch ==
  /\ other.pc = "idle"
  /\ other' = [other EXCEPT !.pc = "fetched", !.base = remote]
  /\ UNCHANGED <<remote, localPages, fetchHead, wt, tmp, stale, renderer, pc, force,
                 push, rs, todo, remoteHas, outcome, rc, did, pre, made, prev,
                 calls, nextId, st, dec>>

\* The second publisher's commit and its git push origin gh-pages.
OtherPush ==
  /\ other.pc = "fetched"
  /\ LET c == [id |-> nextId, parent |-> other.base.id, tree |-> OtherTree(other.base)]
     IN /\ other' = [other EXCEPT !.pc = "done", !.commit = c,
                                  !.ok = FastForward(remote, c)]
        /\ remote' = IF FastForward(remote, c) THEN c ELSE remote
  /\ nextId' = nextId + 1
  /\ UNCHANGED <<localPages, fetchHead, wt, tmp, stale, renderer, pc, force,
                 push, rs, todo, remoteHas, outcome, rc, did, pre, made, prev,
                 calls, st, dec>>

NextRace ==
  \/ Next
  \/ OtherFetch
  \/ OtherPush

SpecRace == InitRace /\ [][NextRace]_vars

\* C12: when both publishers fetched the same state of the remote (the same
\* head, or both no branch when the remote had none) and both committed, at most one push is accepted: if the second publisher's push
\* went through, this publisher's push is rejected and the remote holds the
\* second publisher's commit unchanged, and the other way round.  (A call
\* killed during its cleanup shows Killed in place of its push failure.)
C12_RaceKeepsFirst ==
  (/\ made # NoCommit /\ "push" \in did
   /\ other.pc = "done" /\ other.base = fetchHead
   /\ remoteHas \/ pre = NoCommit) =>
    /\ ~(outcome = "Published" /\ other.ok)
    /\ other.ok => (outcome \in {"PushRejected", "Killed"} /\ remote = other.commit)
    /\ outcome = "Published" => remote = made

\* Both fetched the same existing head, the second publisher pushed first,
\* and this publisher's push was rejected.
C12_Witness ==
  /\ made # NoCommit /\ "push" \in did /\ remoteHas
  /\ other.pc = "done" /\ other.base = fetchHead /\ other.ok
  /\ outcome = "PushRejected"

\* C13: a retry after a push that was rejected because the remote advanced,
\* with the same ResultSet, commits on the remote's current head: its push
\* is not rejected for diverging history and what it publishes holds the
\* subtrees of the publisher that raced ahead and those of the ResultSet.
C13_RetryBuildsOnHead ==
  (/\ prev.outcome = "PushRejected" /\ prev.remote # prev.pre
   /\ rs = prev.rs /\ push /\ made # NoCommit) =>
    /\ made.parent = pre.id
    /\ outcome = "PushRejected" => FastForward(remote, made)
    /\ outcome = "Published" =>
         /\ Published(prev.remote) \cup Holds(rs) \subseteq Published(remote)
         /\ \A pr \in Holds(rs) :
              PrimaryData(remote.tree.dirs[pr]) = PrimaryData(rs.dirs[pr])
         /\ \A pr \in Published(prev.remote) \ Holds(rs) :
              PrimaryData(remote.tree.dirs[pr]) = PrimaryData(prev.remote.tree.dirs[pr])

\* ------------------------------------------------------------ Status Reader
\* The publish variables, and their values while no publish runs.
pvars == <<remote, localPages, fetchHead, wt, tmp, stale, renderer, pc, force,
           push, rs, todo, remoteHas, outcome, rc, did, pre, made, prev,
           calls, nextId>>

PublishIdle ==
  /\ remote = NoCommit
  /\ localPages = NoCommit
  /\ fetchHead = NoCommit
  /\ wt = [w \in {"primary", "worktree"} |->
             IF w = "primary"
             THEN [exists |-> TRUE, branch |-> "main", head |-> SrcCommit,
                   files |-> SrcTree, index |-> SrcTree]
             ELSE NoWt]
  /\ tmp = FALSE
  /\ stale = FALSE
  /\ renderer = "ok"
  /\ pc = "idle"
  /\ force = FALSE /\ push = FALSE
  /\ rs = NoLog
  /\ todo = {}
  /\ remoteHas = FALSE
  /\ outcome = "" /\ rc = -1
  /\ did = {}
  /\ pre = NoCommit
  /\ made = NoCommit
  /\ prev = NoPrev
  /\ calls = 0
  /\ nextId = 3

\* Largest test count in a summary.
MaxTotal == 1

\* A key that the JSON object does not have.
Missing == -1

\* results.json documents on the remote gh-pages branch: success is an
\* optional boolean, summary an optional object whose total and failed may
\* be missing, commit_hash and timestamp strings ("" when missing).
NoSummary == [total |-> Missing, failed |-> Missing]

Docs ==
  {d \in [success : {"absent", "true", "false"},
          hasSummary : BOOLEAN,
          summary : [total : Missing..MaxTotal, failed : Missing..MaxTotal],
          commit_hash : {"", "c1"},
          timestamp : {"", "t1"}] :
     ~d.hasSummary => d.summary = NoSummary}

\* dict.get(key, default) on a summary.
Get(summary, key, default) ==
  IF summary[key] = Missing THEN default ELSE summary[key]

\* The summary fallback when total is 0 too.
DecodeSuccessAnyTotal(data) ==
  IF data.success # "absent"
  THEN data.success
  ELSE LET summary == IF data.hasSummary THEN data.summary ELSE NoSummary
       IN IF Get(summary, "total", 0) >= 0
          THEN (IF Get(summary, "failed", 1) = 0 THEN "true" ELSE "false")
          ELSE "unknown"

\* success = data.get("success"); if it is None and summary.total > 0 it is
\* summary.get("failed", 1) == 0; "unknown" is None.
DecodeSuccess(data) ==
  IF data.success # "absent"
  THEN data.success
  ELSE LET summary == IF data.hasSummary THEN data.summary ELSE NoSummary
       IN IF Get(summary, "total", 0) > 0
          THEN (IF Get(summary, "failed", 1) = 0 THEN "true" ELSE "false")
          ELSE "unknown"

\* The entry branch_status[platform_id] made from one document.
DecodeDoc(data) ==
  [success |-> DecodeSuccess(data),
   commit_hash |-> data.commit_hash,
   timestamp |-> data.timestamp]

InitDecode ==
  /\ PublishIdle
  /\ other = NoOther
  /\ st = StOff
  /\ \E d \in Docs : dec = [pc |-> "read", doc |-> d]

\* json.loads of the fetched content and the decoding that follows.
Decode ==
  /\ dec.pc = "read"
  /\ dec' = [pc |-> "decoded", doc |-> dec.doc, out |-> DecodeDoc(dec.doc)]
  /\ UNCHANGED <<pvars, other, st>>

NextDecode == Decode

SpecDecode == InitDecode /\ [][NextDecode]_vars

\* C17: the reported success is the explicit success field when there is
\* one; without it, it is (failed = 0) when the summary has a total above
\* 0, and unknown when the total is 0 or missing or there is no summary.
C17_SuccessDecoding ==
  dec.pc = "decoded" =>
    LET d == dec.doc
    IN IF d.success # "absent"
       THEN dec.out.success = d.success
       ELSE IF d.hasSummary /\ d.summary.total # Missing /\ d.summary.total > 0
            THEN dec.out.success = IF d.summary.failed = 0 THEN "true" ELSE "false"
            ELSE dec.out.success = "unknown"

\* A document without a success field but with a summary of one passed test
\* was decoded.
C17_Witness ==
  /\ dec.pc = "decoded"
  /\ dec.doc.success = "absent" /\ dec.doc.hasSummary
  /\ dec.doc.summary = [total |-> 1, failed |-> 0]
  /\ dec.out.success = "true"

\* ------------------------------------------------------- the status command
\* Most repositories under all_repos/.
MaxRepos == 2

RepoNames == <<"ComfyUI-a", "ComfyUI-b", "ComfyUI-c", "ComfyUI-d">>

Repos == {RepoNames[i] : i \in 1..MaxRepos}

BRANCHES == {"dev", "main"}

\* No results.json at <branch>/<platform>/ on the remote gh-pages branch.
NoDoc == [success |-> "none", hasSummary |-> FALSE, summary |-> NoSummary,
          commit_hash |-> "", timestamp |-> ""]

\* The document CI published for a (branch, platform): one with an explicit
\* success, two older ones with a summary only, one with neither.
PairDoc(pr) ==
  IF pr = <<"dev", "linux-gpu">>
  THEN [success |-> "true", hasSummary |-> TRUE, summary |-> [total |-> 1, failed |-> 0],
        commit_hash |-> "c1", timestamp |-> "t1"]
  ELSE IF pr = <<"dev", "windows-cpu">>
  THEN [success |-> "absent", hasSummary |-> TRUE, summary |-> [total |-> 1, failed |-> 1],
        commit_hash |-> "c1", timestamp |-> "t1"]
  ELSE IF pr = <<"main", "linux-gpu">>
  THEN [success |-> "absent", hasSummary |-> TRUE, summary |-> [total |-> 1, failed |-> 0],
        commit_hash |-> "c1", timestamp |-> ""]
  ELSE [success |-> "absent", hasSummary |-> FALSE, summary |-> NoSummary,
        commit_hash |-> "", timestamp |-> "t1"]

\* The entries a branch directory of gh-pages may have next to index.html:
\* the platform directories and a directory of assets.
EntryNames == PLATFORM_IDS \cup {"assets"}

EntryPairs == BRANCHES \X EntryNames

\* A directory without a results.json.
EmptyDir == [success |-> "nofile", hasSummary |-> FALSE, summary |-> NoSummary,
             commit_hash |-> "", timestamp |-> ""]

\* The results.json of an earlier run that was archived under dev/assets/.
AssetsDoc == [success |-> "false", hasSummary |-> FALSE, summary |-> NoSummary,
              commit_hash |-> "c1", timestamp |-> "t1"]

\* What the gh-pages branch of one repository may hold: any of the
\* platforms, and under dev no assets, assets without or with a results.json.
Stores ==
  {[pr \in EntryPairs |->
      IF pr \in Pairs
      THEN (IF pr \in S THEN PairDoc(pr) ELSE NoDoc)
      ELSE (IF pr[1] = "dev" THEN a ELSE NoDoc)] :
     S \in SUBSET Pairs, a \in {NoDoc, EmptyDir, AssetsDoc}}

\* The remote reads that fail during one unit of work: none, one, or all.
FailSets(S) == {{}} \cup {{x} : x \in S} \cup {S}

\* gh api repos/<slug>/contents/<branch>: every name under the branch
\* directory; platform_dirs keeps the names that do not end in ".html" and is
\* empty when the call fails or the branch has no directory.
Listing(store, b) ==
  LET dirs == {x \in EntryNames : store[<<b, x>>] # NoDoc}
  IN IF dirs = {} THEN {} ELSE dirs \cup {"index.html"}

\* line.strip().endswith(".html") for the names of the model.
EndsWithHtml(name) == name \in {"index.html"}

platform_dirs(store, listFail, b) ==
  IF b \in listFail
  THEN {}
  ELSE {x \in Listing(store, b) : ~EndsWithHtml(x)}

\* A platform loop without the except clause.
ExceptReraise(raised) == raised

\* "except Exception: continue" of the platform loop: whether an exception
\* raised while reading or decoding leaves _fetch_gh_pages_status.
ExceptContinue(raised) == FALSE

\* The (branch, platform) keys of the status _fetch_gh_pages_status returns;
\* a branch without any platform that was read is left out.
StatusKeys(store, listFail, readFail) ==
  {pr \in EntryPairs : /\ pr[2] \in platform_dirs(store, listFail, pr[1])
                       /\ store[pr] # EmptyDir
                       /\ pr \notin readFail}

fetch_gh_pages_status(store, listFail, readFail) ==
  [pr \in StatusKeys(store, listFail, readFail) |-> DecodeDoc(store[pr])]

\* Whether the unit of work raises: by itself (out of memory, ...) or
\* because a failed read was not caught.
UnitRaises(store, listFail, readFail, raised) ==
  \/ raised
  \/ \E pr \in EntryPairs : /\ pr[2] \in platform_dirs(store, listFail, pr[1])
                            /\ pr \in readFail
                       /\ ExceptContinue(TRUE)

EmptyStatus == [pr \in {} |-> NoDoc]

\* A completed future that raised leaves no entry.
AsCompletedNoHandler(results, name, raised, status) ==
  IF raised
  THEN results
  ELSE [n \in DOMAIN results \cup {name} |->
          IF n = name THEN [status |-> status, error |-> FALSE] ELSE results[n]]

\* The body of "for future in as_completed(futures)" for one future.
AsCompleted(results, name, raised, status) ==
  [n \in DOMAIN results \cup {name} |->
     IF n = name
     THEN (IF raised THEN [status |-> EmptyStatus, error |-> TRUE]
           ELSE [status |-> status, error |-> FALSE])
     ELSE results[n]]

\* The return value of a show_test_status that always returns 0.
ExitCodeZero(found) == 0

\* The return value of show_test_status.
ExitCode(found) == IF found THEN 0 ELSE 1

\* The rows in the order the results were stored.
RowOrderInserted(order) == order

\* "for name in sorted(results.keys())": RepoNames lists the names in
\* sorted order.
RowOrder(order) ==
  SelectSeq(RepoNames, LAMBDA x : \E i \in 1..Len(order) : order[i] = x)

InitStatus ==
  /\ PublishIdle
  /\ other = NoOther
  /\ dec = DecOff
  /\ \E R \in SUBSET Repos : \E s \in [R -> Stores] :
       st = [pc |-> "start", repos |-> R, store |-> s, pending |-> {},
             env |-> [n \in {} |-> 0], results |-> [n \in {} |-> 0],
             order |-> <<>>, rows |-> <<>>, exit |-> -1]

\* repos = _get_repo_slugs(); without repositories the command returns at
\* once, otherwise every repository is submitted to the pool.
Submit ==
  /\ st.pc = "start"
  /\ st' = IF st.repos = {}
           THEN [st EXCEPT !.pc = "done", !.exit = ExitCode(FALSE)]
           ELSE [st EXCEPT !.pc = "pool", !.pending = st.repos]
  /\ UNCHANGED <<pvars, other, dec>>

\* One future completes, in any order: branch listings (listFail) or reads
\* of results.json (readFail) failed, or it raised before reading anything,
\* and the loop stores its result; order is the insertion order of the dict.
FutureDone(name, listFail, readFail, raised) ==
  /\ st.pc = "pool"
  /\ name \in st.pending
  /\ raised => (listFail = {} /\ readFail = {})
  /\ listFail # {} => readFail = {}
  /\ st' = [st EXCEPT
              !.pending = @ \ {name},
              !.order = Append(@, name),
              !.env = [n \in DOMAIN @ \cup {name} |->
                         IF n = name
                         THEN [listFail |-> listFail, readFail |-> readFail, raised |-> raised]
                         ELSE @[n]],
              !.results = AsCompleted(@, name,
                                      UnitRaises(st.store[name], listFail, readFail, raised),
                                      fetch_gh_pages_status(st.store[name], listFail, readFail))]
  /\ UNCHANGED <<pvars, other, dec>>

\* The pool is done: the table is printed and the command returns.
PrintTable ==
  /\ st.pc = "pool"
  /\ st.pending = {}
  /\ st' = [st EXCEPT !.pc = "done", !.rows = RowOrder(st.order),
                       !.exit = ExitCode(TRUE)]
  /\ UNCHANGED <<pvars, other, dec>>

NextStatus ==
  \/ Submit
  \/ \E name \in Repos, listFail \in FailSets(BRANCHES), readFail \in FailSets(Pairs),
        raised \in BOOLEAN : FutureDone(name, listFail, readFail, raised)
  \/ PrintTable

SpecStatus == InitStatus /\ [][NextStatus]_vars

\* What the claims say a document is reported as.
Reported(d) ==
  [success |-> IF d.success # "absent" THEN d.success
               ELSE IF d.hasSummary /\ d.summary.total # Missing /\ d.summary.total > 0
                    THEN (IF d.summary.failed = 0 THEN "true" ELSE "false")
                    ELSE "unknown",
   commit_hash |-> d.commit_hash,
   timestamp |-> d.timestamp]

\* C18: a platform whose read or decoding fails is omitted, every platform
\* whose branch listing and read succeed appears with its success,
\* commit_hash and timestamp, and the failure does not leave the Status
\* Reader as an exception.
C18_PartialFailureIsolation ==
  \A n \in DOMAIN st.results :
    ~st.env[n].raised =>
      /\ ~st.results[n].error
      /\ \A pr \in Pairs :
           IF /\ st.store[n][pr] # NoDoc
              /\ pr[1] \notin st.env[n].listFail
              /\ pr \notin st.env[n].readFail
           THEN /\ pr \in DOMAIN st.results[n].status
                /\ st.results[n].status[pr] = Reported(st.store[n][pr])
           ELSE pr \notin DOMAIN st.results[n].status

\* One read of a repository with all four platforms published failed, and
\* the other three are reported.
C18_Witness ==
  \E n \in DOMAIN st.results :
    /\ \A pr \in Pairs : st.store[n][pr] # NoDoc
    /\ st.env[n] = [listFail |-> {}, readFail |-> {<<"dev", "linux-gpu">>}, raised |-> FALSE]
    /\ DOMAIN st.results[n].status = Pairs \ {<<"dev", "linux-gpu">>}

\* C19 as stated: the status command returns 0 for every input.
C19_AlwaysExitsZero == st.pc = "done" => st.exit = 0

\* C19, amended: the status command returns 0 whenever it found at least
\* one repository, whatever the remote reads did, and 1 when it found none.
C19_ExitZeroWithRepos ==
  st.pc = "done" => /\ st.repos # {} => st.exit = 0
                    /\ st.repos = {} => st.exit = 1

\* The command returned 0 although every remote read of every repository
\* failed.
C19_Witness ==
  /\ st.pc = "done" /\ st.exit = 0 /\ st.repos = Repos
  /\ \A n \in st.repos : st.env[n].listFail = BRANCHES /\ st.results[n].status = EmptyStatus

\* C20: after the pool has finished the results hold one entry for every
\* submitted repository: its own status when its unit of work returned, an
\* empty status when it raised.
C20_PerRepoIsolation ==
  (st.pc = "done" /\ st.repos # {}) =>
    /\ DOMAIN st.results = st.repos
    /\ \A n \in st.repos :
         IF st.env[n].raised
         THEN st.results[n].status = EmptyStatus
         ELSE st.results[n].status =
                fetch_gh_pages_status(st.store[n], st.env[n].listFail, st.env[n].readFail)

\* One unit of work raised and another repository has its status.
C20_Witness ==
  /\ st.pc = "done"
  /\ \E n, m \in st.repos :
       /\ st.env[n].raised /\ st.results[n].status = EmptyStatus
       /\ ~st.env[m].raised /\ DOMAIN st.results[m].status = Pairs

\* ------------------------------------------------ more properties of publish
\* The results.json the test runner wrote as version v: the odd versions
\* come from a runner that does not record the commit.
ResultsJson(v) ==
  [success |-> "true", hasSummary |-> FALSE, summary |-> NoSummary,
   commit_hash |-> IF v % 2 = 1 THEN "" ELSE "c1", timestamp |-> "t1"]

\* C24: every (branch, platform) a publish puts into its commit has a
\* results.json from which the Status Reader reads a non-empty commit_hash.
C24_Provenance ==
  made # NoCommit =>
    \A pr \in Holds(rs) :
      DecodeDoc(ResultsJson(made.tree.dirs[pr].res)).commit_hash # ""

\* C25: when the merge loop is done, every platform directory of the
\* workspace that the ResultSet has results for holds the files of the
\* source directory and nothing of the version published before.
C25_WholeSubtreeReplace ==
  (pc \in {"rootidx", "stage"} /\ wt[MergeRoot].exists) =>
    \A pr \in Holds(rs) :
      /\ PrimaryData(wt[MergeRoot].files.dirs[pr]) = PrimaryData(rs.dirs[pr])
      /\ wt[MergeRoot].files.dirs[pr].idx # 0

\* A platform published with an auxiliary file was replaced by a version
\* without one.
C25_Witness ==
  /\ pc = "stage" /\ remoteHas
  /\ \E pr \in Holds(rs) :
       /\ fetchHead.tree.dirs[pr].aux = 1
       /\ rs.dirs[pr].aux = 0
       /\ wt[MergeRoot].files.dirs[pr].aux = 0

\* C29: when the remote gh-pages branch exists and the fetch of a call
\* fails, the remote is after every later step of the call what it was
\* before: nothing published is removed or replaced by the orphan commit.
C29_FailedFetchNotDestructive ==
  (pre # NoCommit /\ "fetch" \in did /\ ~remoteHas) =>
    /\ remote = pre
    /\ \A pr \in Published(pre) : remote.tree.dirs[pr] = pre.tree.dirs[pr]

\* The orphan commit made after a failed fetch was pushed and rejected, and
\* the call is over.
C29_Witness ==
  /\ pc = "done" /\ "push" \in did /\ made # NoCommit
  /\ pre # NoCommit /\ ~remoteHas
  /\ Published(pre) # {} /\ Published(pre) \cap Published(made) = {}

\* C30 as stated: the subtrees a push=false call committed are in the
\* commit of the next publish.
C30_LocalOnlyNotLost ==
  (prev.outcome = "Committed" /\ made # NoCommit) =>
    Holds(prev.rs) \subseteq Published(made)

\* C30, amended: the next publish deletes the local gh-pages branch with the
\* local-only commit on it and builds on what it fetches from the remote
\* (or on nothing), so its commit holds only subtrees of the fetched head
\* and of its own ResultSet.
C30_LocalOnlyDiscarded ==
  (prev.outcome = "Committed" /\ "branch-D" \in did /\ ~stale) =>
    /\ localPages # prev.made
    /\ made # NoCommit =>
         /\ made.parent = fetchHead.id
         /\ made.parent # prev.made.id
         /\ Published(made) \subseteq Published(fetchHead) \cup Holds(rs)

\* The next publish committed without a subtree of the local-only commit.
C30_Witness ==
  /\ prev.outcome = "Committed" /\ made # NoCommit
  /\ Holds(prev.rs) \ Published(made) # {}

\* C26: only platform-id directories become keys of the status of a branch.
C26_OnlyPlatformKeys ==
  \A n \in DOMAIN st.results : DOMAIN st.results[n].status \subseteq BRANCHES \X PLATFORM_IDS

\* What the results hold for repository n, from the remote contents and the
\* failures of its reads alone.
FinalEntry(n) ==
  IF st.env[n].raised
  THEN [status |-> EmptyStatus, error |-> TRUE]
  ELSE [status |-> [pr \in {q \in EntryPairs : /\ st.store[n][q] \notin {NoDoc, EmptyDir}
                                               /\ q[1] \notin st.env[n].listFail
                                               /\ q \notin st.env[n].readFail} |->
                      Reported(st.store[n][pr])],
        error |-> FALSE]

\* C28: for given repositories, remote contents and read failures, the
\* results and the order of the rows do not depend on the order in which
\* the units of work complete.
C28_OrderIndependence ==
  (st.pc = "done" /\ st.repos # {}) =>
    /\ st.results = [n \in st.repos |-> FinalEntry(n)]
    /\ st.rows = SelectSeq(RepoNames, LAMBDA x : x \in st.repos)

\* The second repository completed first and is shown second.
C28_Witness ==
  /\ st.pc = "done"
  /\ st.order = <<"ComfyUI-b", "ComfyUI-a">>
  /\ st.rows = <<"ComfyUI-a", "ComfyUI-b">>

\* ---------------------------------------------------------------- freshness
\* The characters of "commit[:7]".
ShortLen == 7

\* Longest commit hash.
MaxHashLen == 8

HashChars == {"a", "b"}

\* Commit hashes as strings of characters: the empty one, a very short one,
\* abbreviated ones of ShortLen characters and long ones.
Hashes == UNION {[1..n -> HashChars] : n \in {0, 1, ShortLen, MaxHashLen}}

\* short = commit[:7] if commit else "?"
Short(commit) ==
  IF commit # <<>>
  THEN SubSeq(commit, 1, IF Len(commit) < ShortLen THEN Len(commit) ELSE ShortLen)
  ELSE <<"?">>

\* A comparison that takes an abbreviated hash for the commit it abbreviates.
CommitTagPrefix(commit, local_head) ==
  [style |-> IF /\ commit # <<>> /\ local_head # <<>>
                /\ Len(commit) <= Len(local_head)
                /\ SubSeq(local_head, 1, Len(commit)) = commit
             THEN "dim" ELSE "yellow",
   short |-> Short(commit)]

\* The commit freshness tag of _format_branch: the short hash in dim when
\* "commit and local_head and commit == local_head", in yellow otherwise.
CommitTag(commit, local_head) ==
  [style |-> IF commit # <<>> /\ local_head # <<>> /\ commit = local_head
             THEN "dim" ELSE "yellow",
   short |-> Short(commit)]

InitFresh ==
  /\ PublishIdle
  /\ other = NoOther
  /\ st = StOff
  /\ \E c \in Hashes, h \in Hashes :
       dec = [pc |-> "compare", commit |-> c, local_head |-> h]

\* One platform entry of a branch cell is formatted.
FormatEntry ==
  /\ dec.pc = "compare"
  /\ dec' = [pc |-> "formatted", commit |-> dec.commit, local_head |-> dec.local_head,
             tag |-> CommitTag(dec.commit, dec.local_head)]
  /\ UNCHANGED <<pvars, other, st>>

NextFresh == FormatEntry

SpecFresh == InitFresh /\ [][NextFresh]_vars

\* C21: a result is shown as fresh (dim) exactly when its commit_hash and
\* the local HEAD are both non-empty and equal; any other non-empty hash,
\* an abbreviation of the local HEAD included, is shown as stale (yellow).
C21_FreshIsEquality ==
  dec.pc = "formatted" =>
    LET same == dec.commit # <<>> /\ dec.local_head # <<>> /\ dec.commit = dec.local_head
    IN /\ dec.tag.style = "dim" <=> same
       /\ (dec.commit # <<>> /\ dec.local_head # <<>> /\ ~same) => dec.tag.style = "yellow"

\* An abbreviated hash that is a prefix of the local HEAD was shown as stale.
C21_Witness ==
  /\ dec.pc = "formatted"
  /\ Len(dec.commit) = ShortLen /\ Len(dec.local_head) > ShortLen
  /\ SubSeq(dec.local_head, 1, ShortLen) = dec.commit
  /\ dec.tag.style = "yellow"

\* Some non-empty hash other than c.
OtherHash(c) == IF c = <<"a">> THEN <<"b">> ELSE <<"a">>

\* C22: when the commit_hash or the local HEAD is empty, what is shown is
\* neither what a fresh nor what a stale result is shown as.
C22_UnknownDistinct ==
  (dec.pc = "formatted" /\ (dec.commit = <<>> \/ dec.local_head = <<>>)) =>
    \A c \in Hashes \ {<<>>} :
      /\ CommitTag(c, c) # dec.tag
      /\ CommitTag(c, OtherHash(c)) # dec.tag

\* -------------------------------------------------------- ResultSet Locator
\* Most entries of the logs directory, and latest modification time.
MaxFolders == 2

MaxMtime == 2

\* Names are strings of characters.  The entries the logs directory may
\* have: a-b-1, A_b-1, ab-2, ab, b-1, ab-1-2.
FolderNames ==
  {<<"a", "-", "b", "-", "1">>, <<"A", "_", "b", "-", "1">>, <<"a", "b", "-", "2">>,
   <<"a", "b">>, <<"b", "-", "1">>, <<"a", "b", "-", "1", "-", "2">>}

\* The repository names asked for: a-b, Ab, b, c.
RepoIds == {<<"a", "-", "b">>, <<"A", "b">>, <<"b">>, <<"c">>}

\* The timestamp argument: none, 1, 2.
Timestamps == {<<>>, <<"1">>, <<"2">>}

\* What the logs directory may hold: at most MaxFolders entries.
LogRoots ==
  UNION {{{[name |-> n, mtime |-> f[n].mtime, isDir |-> f[n].isDir] : n \in N} :
            f \in [N -> [mtime : 1..MaxMtime, isDir : BOOLEAN]]} :
         N \in {M \in SUBSET FolderNames : Cardinality(M) <= MaxFolders}}

\* str.lower() on one character.
Lower(c) == IF c = "A" THEN "a" ELSE c

\* name.lower().replace("-", "").replace("_", "")
Normalize(name) ==
  SelectSeq([i \in 1..Len(name) |-> Lower(name[i])], LAMBDA c : c \notin {"-", "_"})

\* The position of the last "-" of a name, 0 when it has none.
LastHyphen(name) ==
  LET at == {i \in 1..Len(name) : name[i] = "-"}
  IN IF at = {} THEN 0 ELSE CHOOSE i \in at : \A j \in at : j <= i

\* parts = folder.name.rsplit("-", 1)
BaseName(name) == SubSeq(name, 1, LastHyphen(name) - 1)

FolderTimestamp(name) == SubSeq(name, LastHyphen(name) + 1, Len(name))

\* The test of the loop body of find_latest_log on one entry.
Candidate(e, repo_name) ==
  /\ e.isDir
  /\ LastHyphen(e.name) > 0
  /\ Normalize(BaseName(e.name)) = Normalize(repo_name)

NotFound == [found |-> FALSE, name |-> <<>>]

\* A sort without reverse=True: the oldest candidate comes first.
Oldest(candidates) ==
  LET i == CHOOSE i \in 1..Len(candidates) :
             /\ \A j \in 1..Len(candidates) : candidates[j].mtime >= candidates[i].mtime
             /\ \A j \in 1..(i - 1) : candidates[j].mtime # candidates[i].mtime
  IN candidates[i]

\* candidates.sort(key=st_mtime, reverse=True); candidates[0]: the sort is
\* stable, so among the newest the first one listed.
Newest(candidates) ==
  LET i == CHOOSE i \in 1..Len(candidates) :
             /\ \A j \in 1..Len(candidates) : candidates[j].mtime <= candidates[i].mtime
             /\ \A j \in 1..(i - 1) : candidates[j].mtime # candidates[i].mtime
  IN candidates[i]

\* find_latest_log(repo_name, timestamp) on a logs directory whose
\* iterdir() yields listing.
find_latest_log(exists, listing, repo_name, timestamp) ==
  IF ~exists
  THEN NotFound
  ELSE IF timestamp # <<>>
  THEN LET hits == {i \in 1..Len(listing) :
                      /\ Candidate(listing[i], repo_name)
                      /\ FolderTimestamp(listing[i].name) = timestamp}
       IN IF hits = {}
          THEN NotFound
          ELSE [found |-> TRUE,
                name |-> listing[CHOOSE i \in hits : \A j \in hits : i <= j].name]
  ELSE LET candidates == SelectSeq(listing, LAMBDA e : Candidate(e, repo_name))
       IN IF candidates = <<>>
          THEN NotFound
          ELSE [found |-> TRUE, name |-> Newest(candidates).name]

\* The orders in which iterdir() may yield the entries.
Listings(S) ==
  {l \in [1..Cardinality(S) -> S] : \A i, j \in 1..Cardinality(S) : l[i] = l[j] => i = j}

InitLocate ==
  /\ PublishIdle
  /\ other = NoOther
  /\ st = StOff
  /\ \E exists \in BOOLEAN, S \in LogRoots, r \in RepoIds, t \in Timestamps :
       /\ ~exists => S = {}
       /\ dec = [pc |-> "locate", exists |-> exists, folders |-> S,
                 repo_name |-> r, timestamp |-> t]

Locate(listing) ==
  /\ dec.pc = "locate"
  /\ dec' = [pc |-> "located", exists |-> dec.exists, folders |-> dec.folders,
             repo_name |-> dec.repo_name, timestamp |-> dec.timestamp,
             result |-> find_latest_log(dec.exists, listing, dec.repo_name, dec.timestamp)]
  /\ UNCHANGED <<pvars, other, st>>

NextLocate == \E listing \in Listings(dec.folders) : Locate(listing)

SpecLocate == InitLocate /\ [][NextLocate]_vars

\* The directories named {name}-{timestamp} whose name part is the
\* repository id, both lowercased and without hyphens and underscores.
Matching ==
  {e \in dec.folders :
     /\ e.isDir
     /\ \E i \in 1..Len(e.name) : e.name[i] = "-"
     /\ Normalize(BaseName(e.name)) = Normalize(dec.repo_name)}

\* C23: the locator returns, among the matching directories, the one with
\* the given timestamp when one is given and otherwise one with the
\* greatest modification time; it returns NotFound when the logs directory
\* is absent or no directory matches.
C23_LocatorSelection ==
  dec.pc = "located" =>
    IF ~dec.exists \/ Matching = {}
    THEN dec.result = NotFound
    ELSE IF dec.timestamp # <<>>
    THEN IF \E e \in Matching : FolderTimestamp(e.name) = dec.timestamp
         THEN /\ dec.result.found
              /\ \E e \in Matching : /\ e.name = dec.result.name
                                     /\ FolderTimestamp(e.name) = dec.timestamp
         ELSE dec.result = NotFound
    ELSE /\ dec.result.found
         /\ \E e \in Matching : /\ e.name = dec.result.name
                                /\ \A f \in Matching : f.mtime <= e.mtime

\* Two directories match a-b; no timestamp was given and the newer one,
\* A_b-1, was returned.
C23_Witness ==
  /\ dec.pc = "located"
  /\ dec.repo_name = <<"a", "-", "b">> /\ dec.timestamp = <<>>
  /\ Cardinality(Matching) = 2
  /\ \E e \in Matching : e.mtime = 1
  /\ dec.result = [found |-> TRUE, name |-> <<"A", "_", "b", "-", "1">>]

\* ------------------------------------------------------ ResultSet branches()
\* The names the entries of a log folder may have, and the names the
\* entries of one of its subdirectories may have.
TopNames == <<"dev", "main", ".tmp">>

ChildNames == PLATFORM_IDS \cup {"shots"}

Kinds == {"none", "file", "dir"}

\* What a log folder may hold: under each name nothing, a file, or a
\* directory with its own entries.
LogFolders ==
  [{TopNames[i] : i \in 1..Len(TopNames)} ->
     {[kind |-> k, child |-> [c \in ChildNames |-> "none"]] : k \in {"none", "file"}}
       \cup [kind : {"dir"}, child : [ChildNames -> Kinds]]]

\* subdir.name.startswith('.')
StartsWithDot(name) == name = ".tmp"

\* The two tests of find_branches on one entry of the log folder.
IsBranchFolder(folder, name) ==
  /\ folder[name].kind = "dir"
  /\ ~StartsWithDot(name)
  /\ \E platform_id \in PLATFORM_IDS : folder[name].child[platform_id] # "none"

\* find_branches(log_folder) when iterdir() yields listing: the branch
\* folders in the order listed.
BranchFolders(folder, listing) == SelectSeq(listing, LAMBDA name : IsBranchFolder(folder, name))

\* The orders in which iterdir() may yield the entries of a log folder.
FolderListings(folder) ==
  LET present == {n \in DOMAIN folder : folder[n].kind # "none"}
  IN {l \in [1..Cardinality(present) -> present] :
        \A i, j \in 1..Cardinality(present) : l[i] = l[j] => i = j}

InitBranches ==
  /\ PublishIdle
  /\ other = NoOther
  /\ st = StOff
  /\ \E folder \in LogFolders : dec = [pc |-> "scan", folder |-> folder]

Scan(listing) ==
  /\ dec.pc = "scan"
  /\ dec' = [pc |-> "scanned", folder |-> dec.folder,
             branches |-> BranchFolders(dec.folder, listing)]
  /\ UNCHANGED <<pvars, other, st>>

NextBranches == \E listing \in FolderListings(dec.folder) : Scan(listing)

SpecBranches == InitBranches /\ [][NextBranches]_vars

\* C27: branches() returns exactly the immediate subdirectories that contain
\* at least one subdirectory named by a recognized platform id, each of
\* them once.
C27_BranchesExact ==
  dec.pc = "scanned" =>
    /\ {dec.branches[i] : i \in 1..Len(dec.branches)}
         = {n \in DOMAIN dec.folder :
              /\ dec.folder[n].kind = "dir"
              /\ \E p \in PLATFORM_IDS : dec.folder[n].child[p] = "dir"}
    /\ \A i, j \in 1..Len(dec.branches) : dec.branches[i] = dec.branches[j] => i = j

====
